---- MODULE Spec2Model ----
(***************************************************************************)
(* State-machine model of projects/fashionMNIST.ipynb: the NeuralNetwork   *)
(* topology, train(), test(), the epoch loop, torch.save /                 *)
(* load_state_dict and the single-sample prediction.                       *)
(*                                                                         *)
(* Tensors are abstracted: a parameter vector is one value of Params, a    *)
(* sample is a feature class and a label, the network's decision on a      *)
(* sample is Argmax, and a tensor's shape is a sequence of integers.       *)
(* Gradients accumulate by addition, as autograd's .grad does; the value 0 *)
(* stands for "no gradient" (None or a zero tensor).                       *)
(***************************************************************************)
EXTENDS Integers, Sequences, FiniteSets, TLC

\* ------------------------------------------------------------ bounds
\* whole batches in a split of the notebook run
MaxFull == 2
\* samples in a trailing partial batch
MaxRem == 1
\* whole reporting periods (of ProgressEvery batches) in the long training runs
MaxPeriods == 1
\* abstract parameter vectors
NumParamValues == 2

\* ------------------------------------------------- program constants
batch_size == 64
epochs == 5
ProgressEvery == 100
NumClasses == 10
Hidden == 512
ImageSide == 28
\* test_data[1]: the sample the prediction cell reads
PredictIndex == 1
\* the model object whose parameters the optimizer was built over
OptimizerModel == 1
\* the model object the reload cell constructs
ReloadedModel == 2

classes == << "T-shirt/top", "Trouser", "Pullover", "Dress", "Coat",
              "Sandal", "Shirt", "Sneaker", "Bag", "Ankle boot" >>

Params == 0 .. (NumParamValues - 1)
SplitSizes == { f * batch_size + r : f \in 0 .. MaxFull, r \in 0 .. MaxRem }
LongSizes == { p * ProgressEvery * batch_size + r :
                 p \in 0 .. MaxPeriods, r \in 0 .. MaxRem }

\* model.pth does not exist
NoFile == [exists |-> FALSE]
\* no model(...) call made yet
NoPred == [called |-> FALSE]
\* nothing printed
NoObs == [printed |-> FALSE]
ShapeError == << >>

Min(a, b) == IF a < b THEN a ELSE b

\* ------------------------------------------------------------ datasets
\* sample i of the training split: a feature class and a label
training_data(i) == [x |-> i % 5, y |-> ((i % 5) + (i % 2)) % NumClasses]

\* sample i of the test split
test_data(i) == [x |-> i % 4, y |-> i % 3]

Sample(split, i) == IF split = "train" THEN training_data(i) ELSE test_data(i)

\* len(dataloader): batches of batch_size, the last one possibly partial
NumBatches(n) == (n + batch_size - 1) \div batch_size

\* the batch a DataLoader without shuffling yields at position it
NextBatch(split, it, n) ==
    [split |-> split, lo |-> it, n |-> Min(batch_size, n - it)]

Labels(b) == [k \in 1 .. b.n |-> Sample(b.split, b.lo + k - 1).y]

Features(b) == [k \in 1 .. b.n |-> Sample(b.split, b.lo + k - 1).x]

\* ------------------------------------------------------------ the network
RECURSIVE Prod(_)
Prod(s) == IF s = << >> THEN 1 ELSE Head(s) * Prod(Tail(s))

\* nn.Flatten(): start_dim = 1, end_dim = -1
Flatten(s) == IF Len(s) < 2 THEN ShapeError ELSE << Head(s), Prod(Tail(s)) >>

\* nn.Linear(in, out) acts on the last dimension, which must be in
Linear(in, out, s) ==
    IF s # ShapeError /\ s[Len(s)] = in
    THEN [s EXCEPT ![Len(s)] = out]
    ELSE ShapeError

ReLU(s) == s

linear_relu_stack ==
    << [op |-> "Linear", in |-> ImageSide * ImageSide, out |-> Hidden],
       [op |-> "ReLU"],
       [op |-> "Linear", in |-> Hidden, out |-> Hidden],
       [op |-> "ReLU"],
       [op |-> "Linear", in |-> Hidden, out |-> NumClasses] >>

RECURSIVE Sequential(_, _)
Sequential(layers, s) ==
    IF layers = << >> THEN s
    ELSE LET l == Head(layers)
             r == IF l.op = "Linear" THEN Linear(l.in, l.out, s) ELSE ReLU(s)
         IN  Sequential(Tail(layers), r)

forwardNoFlatten(s) == Sequential(linear_relu_stack, s)

\* NeuralNetwork.forward on shapes
forward(s) == Sequential(linear_relu_stack, Flatten(s))

\* the class with the greatest logit, for parameters p and feature class x
Argmax(p, x) == (p + x) % NumClasses

\* model(X): shape of the logits, the class decided for each row, whether
\* autograd tracks the result, and the mode the modules ran in
Call(m, shape, feats, tracking) ==
    [called   |-> TRUE,
     shape    |-> forward(shape),
     cls      |-> [k \in DOMAIN feats |-> Argmax(m.params, feats[k])],
     tracked  |-> tracking,
     training |-> m.training]

BatchShape(b) == << b.n, 1, ImageSide, ImageSide >>

\* nn.CrossEntropyLoss, abstracted to a non-negative integer
loss_fn(p, ys) == Cardinality({k \in DOMAIN ys : p.cls[k] # ys[k]})

\* (pred.argmax(1) == y).sum()
CorrectIn(p, ys) == Cardinality({k \in DOMAIN ys : p.cls[k] = ys[k]})

\* what loss.backward() adds to .grad
Gradient(p, ys) == (loss_fn(p, ys) % 2) + 1

\* torch.optim.SGD step on the abstract parameter value
SGDStep(p, g) == (p + NumParamValues - (g % NumParamValues)) % NumParamValues

NewModel(p) == [params |-> p, grad |-> 0, training |-> TRUE]

\* ------------------------------------------------------------ rationals
Rat(a) == [num |-> a, den |-> 1]

RatAddInt(q, k) == [num |-> q.num + k * q.den, den |-> q.den]

RatDiv(q, k) == [num |-> q.num, den |-> q.den * k]

RatEq(a, b) == a.num * b.den = b.num * a.den

\* ------------------------------------------------------------ state
VARIABLES
    pc,          \* position in the notebook
    t,           \* epoch loop variable (next value of range(epochs))
    models,      \* the NeuralNetwork objects constructed so far
    model,       \* the object the global name model refers to
    file,        \* contents of model.pth
    train_size,  \* len(training_data)
    test_size,   \* len(test_data)
    size,        \* local of train() / test()
    num_batches, \* local of test()
    it,          \* position of the running DataLoader iterator
    batch,       \* enumerate() index in train()
    Xy,          \* the batch (X, y) in hand
    pred,        \* result of the last model(...) call
    loss,        \* local of train()
    grad_mode,   \* torch.is_grad_enabled()
    observed,    \* progress line printed for the batch in hand
    processed,   \* samples the training iterator handed out this epoch
    test_loss,   \* local of test()
    correct,     \* local of test()
    reports,     \* "Test Error" lines printed
    prediction,  \* the "Predicted / Actual" line
    steps,       \* optimizer.step() calls made
    test_calls,  \* test() calls made
    phases       \* phases started, in order

vars == << pc, t, models, model, file, train_size, test_size, size,
           num_batches, it, batch, Xy, pred, loss, grad_mode, observed,
           processed, test_loss, correct, reports, prediction, steps,
           test_calls, phases >>

\* the state after the cells that build the data loaders, the model, the
\* loss function and the optimizer
InitWith(trainSizes, testSizes) ==
    /\ pc = "for"
    /\ t = 0
    /\ \E p \in Params : models = (OptimizerModel :> NewModel(p))
    /\ model = OptimizerModel
    /\ file = NoFile
    /\ train_size \in trainSizes
    /\ test_size \in testSizes
    /\ size = 0
    /\ num_batches = 0
    /\ it = 0
    /\ batch = 0
    /\ Xy = NextBatch("train", 0, 0)
    /\ pred = NoPred
    /\ loss = 0
    /\ grad_mode = TRUE
    /\ observed = NoObs
    /\ processed = 0
    /\ test_loss = Rat(0)
    /\ correct = Rat(0)
    /\ reports = << >>
    /\ prediction = NoObs
    /\ steps = 0
    /\ test_calls = 0
    /\ phases = << "construct" >>

Init == InitWith(SplitSizes, SplitSizes)

\* ------------------------------------------------------------ epoch loop
ForLoopOffByOne ==
    /\ pc = "for"
    /\ pc' = IF t <= epochs THEN "train_enter" ELSE "done"
    /\ UNCHANGED << t, models, model, file, train_size, test_size, size,
                    num_batches, it, batch, Xy, pred, loss, grad_mode,
                    observed, processed, test_loss, correct, reports,
                    prediction, steps, test_calls, phases >>

\* for t in range(epochs): ... train(...)
ForLoop ==
    /\ pc = "for"
    /\ pc' = IF t < epochs THEN "train_enter" ELSE "done"
    /\ UNCHANGED << t, models, model, file, train_size, test_size, size,
                    num_batches, it, batch, Xy, pred, loss, grad_mode,
                    observed, processed, test_loss, correct, reports,
                    prediction, steps, test_calls, phases >>

\* ------------------------------------------------------------ train()
TrainEnterKeepsMode ==
    /\ pc = "train_enter"
    /\ size' = train_size
    /\ it' = 0
    /\ batch' = -1
    /\ processed' = 0
    /\ observed' = NoObs
    /\ phases' = Append(phases, "train")
    /\ pc' = "train_loop"
    /\ UNCHANGED << t, models, model, file, train_size, test_size,
                    num_batches, Xy, pred, loss, grad_mode, test_loss,
                    correct, reports, prediction, steps, test_calls >>

\* size = len(dataloader.dataset); model.train(); iter(dataloader)
TrainEnter ==
    /\ pc = "train_enter"
    /\ size' = train_size
    /\ models' = [models EXCEPT ![model].training = TRUE]
    /\ it' = 0
    /\ batch' = -1
    /\ processed' = 0
    /\ observed' = NoObs
    /\ phases' = Append(phases, "train")
    /\ pc' = "train_loop"
    /\ UNCHANGED << t, model, file, train_size, test_size, num_batches, Xy,
                    pred, loss, grad_mode, test_loss, correct, reports,
                    prediction, steps, test_calls >>

\* for batch, (X, y) in enumerate(dataloader): the next batch
TrainFetch ==
    /\ pc = "train_loop"
    /\ it < train_size
    /\ LET b == NextBatch("train", it, train_size)
       IN  /\ Xy' = b
           /\ it' = it + b.n
           /\ processed' = processed + b.n
    /\ batch' = batch + 1
    /\ observed' = NoObs
    /\ pc' = "forward"
    /\ UNCHANGED << t, models, model, file, train_size, test_size, size,
                    num_batches, pred, loss, grad_mode, test_loss, correct,
                    reports, prediction, steps, test_calls, phases >>

\* the iterator is exhausted: train() returns and the loop body calls test()
TrainReturn ==
    /\ pc = "train_loop"
    /\ it >= train_size
    /\ pc' = "test_enter"
    /\ UNCHANGED << t, models, model, file, train_size, test_size, size,
                    num_batches, it, batch, Xy, pred, loss, grad_mode,
                    observed, processed, test_loss, correct, reports,
                    prediction, steps, test_calls, phases >>

\* pred = model(X); loss = loss_fn(pred, y)
TrainForward ==
    /\ pc = "forward"
    /\ pred' = Call(models[model], BatchShape(Xy), Features(Xy), grad_mode)
    /\ loss' = loss_fn(pred', Labels(Xy))
    /\ pc' = "backward"
    /\ UNCHANGED << t, models, model, file, train_size, test_size, size,
                    num_batches, it, batch, Xy, grad_mode, observed,
                    processed, test_loss, correct, reports, prediction,
                    steps, test_calls, phases >>

\* loss.backward(): adds the batch's gradient to .grad
TrainBackward ==
    /\ pc = "backward"
    /\ IF pred.tracked
       THEN /\ models' = [models EXCEPT
                 ![model].grad = @ + Gradient(pred, Labels(Xy))]
            /\ pc' = "step"
       ELSE /\ pc' = "error"
            /\ UNCHANGED models
    /\ UNCHANGED << t, model, file, train_size, test_size, size,
                    num_batches, it, batch, Xy, pred, loss, grad_mode,
                    observed, processed, test_loss, correct, reports,
                    prediction, steps, test_calls, phases >>

\* optimizer.step()
OptimizerStep ==
    /\ pc = "step"
    /\ models' = [models EXCEPT ![OptimizerModel].params =
                      SGDStep(@, models[OptimizerModel].grad)]
    /\ steps' = steps + 1
    /\ pc' = "zero_grad"
    /\ UNCHANGED << t, model, file, train_size, test_size, size,
                    num_batches, it, batch, Xy, pred, loss, grad_mode,
                    observed, processed, test_loss, correct, reports,
                    prediction, test_calls, phases >>

ZeroGradSkipped ==
    /\ pc = "zero_grad"
    /\ pc' = "progress"
    /\ UNCHANGED << t, models, model, file, train_size, test_size, size,
                    num_batches, it, batch, Xy, pred, loss, grad_mode,
                    observed, processed, test_loss, correct, reports,
                    prediction, steps, test_calls, phases >>

\* optimizer.zero_grad()
ZeroGrad ==
    /\ pc = "zero_grad"
    /\ models' = [models EXCEPT ![OptimizerModel].grad = 0]
    /\ pc' = "progress"
    /\ UNCHANGED << t, model, file, train_size, test_size, size,
                    num_batches, it, batch, Xy, pred, loss, grad_mode,
                    observed, processed, test_loss, correct, reports,
                    prediction, steps, test_calls, phases >>

\* if batch % 100 == 0: current = (batch + 1) * len(X); print(...)
TrainProgress ==
    /\ pc = "progress"
    /\ observed' = IF batch % ProgressEvery = 0
                   THEN [printed |-> TRUE,
                         loss    |-> loss,
                         current |-> (batch + 1) * Xy.n,
                         size    |-> size]
                   ELSE NoObs
    /\ pc' = "train_loop"
    /\ UNCHANGED << t, models, model, file, train_size, test_size, size,
                    num_batches, it, batch, Xy, pred, loss, grad_mode,
                    processed, test_loss, correct, reports, prediction,
                    steps, test_calls, phases >>

\* ------------------------------------------------------------ test()
TestEnterKeepsTotals ==
    /\ pc = "test_enter"
    /\ size' = test_size
    /\ num_batches' = NumBatches(test_size)
    /\ models' = [models EXCEPT ![model].training = FALSE]
    /\ grad_mode' = FALSE
    /\ it' = 0
    /\ test_calls' = test_calls + 1
    /\ phases' = Append(phases, "test")
    /\ pc' = "test_loop"
    /\ UNCHANGED << t, model, file, train_size, test_size, batch, Xy, pred,
                    loss, observed, processed, test_loss, correct, reports,
                    prediction, steps >>

\* size, num_batches; model.eval(); test_loss, correct = 0, 0;
\* with torch.no_grad(): iter(dataloader)
TestEnter ==
    /\ pc = "test_enter"
    /\ size' = test_size
    /\ num_batches' = NumBatches(test_size)
    /\ models' = [models EXCEPT ![model].training = FALSE]
    /\ test_loss' = Rat(0)
    /\ correct' = Rat(0)
    /\ grad_mode' = FALSE
    /\ it' = 0
    /\ test_calls' = test_calls + 1
    /\ phases' = Append(phases, "test")
    /\ pc' = "test_loop"
    /\ UNCHANGED << t, model, file, train_size, test_size, batch, Xy, pred,
                    loss, observed, processed, reports, prediction, steps >>

TestBatchBackward ==
    /\ pc = "test_loop"
    /\ it < test_size
    /\ LET b == NextBatch("test", it, test_size)
           p == Call(models[model], BatchShape(b), Features(b), TRUE)
       IN  /\ Xy' = b
           /\ it' = it + b.n
           /\ pred' = p
           /\ test_loss' = RatAddInt(test_loss, loss_fn(p, Labels(b)))
           /\ correct' = RatAddInt(correct, CorrectIn(p, Labels(b)))
           /\ models' = [models EXCEPT
                 ![model].grad = @ + Gradient(p, Labels(b))]
    /\ UNCHANGED << pc, t, model, file, train_size, test_size, size,
                    num_batches, batch, loss, grad_mode, observed,
                    processed, reports, prediction, steps, test_calls,
                    phases >>

\* for X, y in dataloader: pred = model(X); test_loss += ...; correct += ...
TestBatch ==
    /\ pc = "test_loop"
    /\ it < test_size
    /\ LET b == NextBatch("test", it, test_size)
           p == Call(models[model], BatchShape(b), Features(b), grad_mode)
       IN  /\ Xy' = b
           /\ it' = it + b.n
           /\ pred' = p
           /\ test_loss' = RatAddInt(test_loss, loss_fn(p, Labels(b)))
           /\ correct' = RatAddInt(correct, CorrectIn(p, Labels(b)))
    /\ UNCHANGED << pc, t, models, model, file, train_size, test_size, size,
                    num_batches, batch, loss, grad_mode, observed,
                    processed, reports, prediction, steps, test_calls,
                    phases >>

TestReportSwapped ==
    /\ pc = "test_loop"
    /\ it >= test_size
    /\ grad_mode' = TRUE
    /\ IF num_batches = 0
       THEN /\ pc' = "error"
            /\ UNCHANGED << test_loss, correct, reports >>
       ELSE /\ test_loss' = RatDiv(test_loss, size)
            /\ correct' = RatDiv(correct, num_batches)
            /\ reports' = Append(reports, [accuracy |-> correct',
                                           avg_loss |-> test_loss'])
            /\ pc' = "test_return"
    /\ UNCHANGED << t, models, model, file, train_size, test_size, size,
                    num_batches, it, batch, Xy, pred, loss, observed,
                    processed, prediction, steps, test_calls, phases >>

\* the iterator is exhausted and the no_grad block ends;
\* test_loss /= num_batches; correct /= size; print(...)
\* (a division by zero raises ZeroDivisionError and ends the run)
TestReport ==
    /\ pc = "test_loop"
    /\ it >= test_size
    /\ grad_mode' = TRUE
    /\ IF num_batches = 0
       THEN /\ pc' = "error"
            /\ UNCHANGED << test_loss, correct, reports >>
       ELSE /\ test_loss' = RatDiv(test_loss, num_batches)
            /\ correct' = RatDiv(correct, size)
            /\ reports' = Append(reports, [accuracy |-> correct',
                                           avg_loss |-> test_loss'])
            /\ pc' = "test_return"
    /\ UNCHANGED << t, models, model, file, train_size, test_size, size,
                    num_batches, it, batch, Xy, pred, loss, observed,
                    processed, prediction, steps, test_calls, phases >>

\* test() has returned to the epoch loop: the next value of range(epochs)
TestReturn ==
    /\ pc = "test_return"
    /\ t' = t + 1
    /\ pc' = "for"
    /\ UNCHANGED << models, model, file, train_size, test_size, size,
                    num_batches, it, batch, Xy, pred, loss, grad_mode,
                    observed, processed, test_loss, correct, reports,
                    prediction, steps, test_calls, phases >>

\* print("Done!")
Done ==
    /\ pc = "done"
    /\ pc' = "save"
    /\ UNCHANGED << t, models, model, file, train_size, test_size, size,
                    num_batches, it, batch, Xy, pred, loss, grad_mode,
                    observed, processed, test_loss, correct, reports,
                    prediction, steps, test_calls, phases >>

\* ------------------------------------------------------------ persistence
\* model.state_dict(): the parameter values only
state_dict(m) == m.params

\* torch.save(model.state_dict(), "model.pth")
Save ==
    /\ pc = "save"
    /\ file' = [exists |-> TRUE, state |-> state_dict(models[model])]
    /\ phases' = Append(phases, "save")
    /\ pc' = "reconstruct"
    /\ UNCHANGED << t, models, model, train_size, test_size, size,
                    num_batches, it, batch, Xy, pred, loss, grad_mode,
                    observed, processed, test_loss, correct, reports,
                    prediction, steps, test_calls >>

\* model = NeuralNetwork().to(device): a new object, randomly initialised
Reconstruct ==
    /\ pc = "reconstruct"
    /\ \E p \in Params : models' = models @@ (ReloadedModel :> NewModel(p))
    /\ model' = ReloadedModel
    /\ phases' = Append(phases, "load")
    /\ pc' = "load"
    /\ UNCHANGED << t, file, train_size, test_size, size, num_batches, it,
                    batch, Xy, pred, loss, grad_mode, observed, processed,
                    test_loss, correct, reports, prediction, steps,
                    test_calls >>

LoadIgnored ==
    /\ pc = "load"
    /\ pc' = IF ~file.exists THEN "error" ELSE "predict_eval"
    /\ UNCHANGED << t, models, model, file, train_size, test_size, size,
                    num_batches, it, batch, Xy, pred, loss, grad_mode,
                    observed, processed, test_loss, correct, reports,
                    prediction, steps, test_calls, phases >>

\* model.load_state_dict(torch.load("model.pth"))
Load ==
    /\ pc = "load"
    /\ IF ~file.exists
       THEN /\ pc' = "error"
            /\ UNCHANGED models
       ELSE /\ models' = [models EXCEPT ![model].params = file.state]
            /\ pc' = "predict_eval"
    /\ UNCHANGED << t, model, file, train_size, test_size, size,
                    num_batches, it, batch, Xy, pred, loss, grad_mode,
                    observed, processed, test_loss, correct, reports,
                    prediction, steps, test_calls, phases >>

\* ------------------------------------------------------------ prediction
\* model.eval()
PredictEval ==
    /\ pc = "predict_eval"
    /\ models' = [models EXCEPT ![model].training = FALSE]
    /\ phases' = Append(phases, "predict")
    /\ pc' = "predict"
    /\ UNCHANGED << t, model, file, train_size, test_size, size,
                    num_batches, it, batch, Xy, pred, loss, grad_mode,
                    observed, processed, test_loss, correct, reports,
                    prediction, steps, test_calls >>

\* the shape of one sample as the dataset returns it: (1, 28, 28)
SampleShape == << 1, ImageSide, ImageSide >>

\* x, y = test_data[1]; with torch.no_grad(): pred = model(x);
\* predicted, actual = classes[pred[0].argmax(0)], classes[y]
\* (test_data[1] raises IndexError on a split of fewer than two samples)
Predict ==
    /\ pc = "predict"
    /\ IF PredictIndex < test_size
       THEN LET s == test_data(PredictIndex)
                p == Call(models[model], SampleShape, << s.x >>, FALSE)
            IN  /\ pred' = p
                /\ prediction' = [printed   |-> TRUE,
                                  predicted |-> classes[p.cls[1] + 1],
                                  actual    |-> classes[s.y + 1]]
                /\ pc' = "end"
       ELSE /\ pc' = "error"
            /\ UNCHANGED << pred, prediction >>
    /\ UNCHANGED << t, models, model, file, train_size, test_size, size,
                    num_batches, it, batch, Xy, loss, grad_mode, observed,
                    processed, test_loss, correct, reports, test_calls,
                    steps, phases >>

\* ------------------------------------------------------------ the notebook
Next ==
    \/ ForLoop
    \/ TrainEnter
    \/ TrainFetch
    \/ TrainReturn
    \/ TrainForward
    \/ TrainBackward
    \/ OptimizerStep
    \/ ZeroGrad
    \/ TrainProgress
    \/ TestEnter
    \/ TestBatch
    \/ TestReport
    \/ TestReturn
    \/ Done
    \/ Save
    \/ Reconstruct
    \/ Load
    \/ PredictEval
    \/ Predict

Spec == Init /\ [][Next]_vars

\* the same notebook over training splits long enough to reach the batches
\* whose index is a positive multiple of ProgressEvery
InitLong == InitWith(LongSizes, {batch_size})

SpecLong == InitLong /\ [][Next]_vars

\* ------------------------------------------------------------ test() alone
\* test() called on any model state and any test split, then called again
InitEval ==
    /\ pc = "test_enter"
    /\ t = 0
    /\ \E p \in Params, g \in Params, m \in BOOLEAN :
          models = (OptimizerModel :>
                      [params |-> p, grad |-> g, training |-> m])
    /\ model = OptimizerModel
    /\ file = NoFile
    /\ train_size = 0
    /\ test_size \in SplitSizes
    /\ size = 0
    /\ num_batches = 0
    /\ it = 0
    /\ batch = 0
    /\ Xy = NextBatch("test", 0, 0)
    /\ pred = NoPred
    /\ loss = 0
    /\ grad_mode = TRUE
    /\ observed = NoObs
    /\ processed = 0
    /\ test_loss = Rat(0)
    /\ correct = Rat(0)
    /\ reports = << >>
    /\ prediction = NoObs
    /\ steps = 0
    /\ test_calls = 0
    /\ phases = << >>

\* the first call has returned: call test() again with the same arguments
TestAgain ==
    /\ pc = "test_return"
    /\ pc' = IF test_calls < 2 THEN "test_enter" ELSE "eval_done"
    /\ UNCHANGED << t, models, model, file, train_size, test_size, size,
                    num_batches, it, batch, Xy, pred, loss, grad_mode,
                    observed, processed, test_loss, correct, reports,
                    prediction, steps, test_calls, phases >>

NextEval ==
    \/ TestEnter
    \/ TestBatch
    \/ TestReport
    \/ TestAgain

SpecEval == InitEval /\ [][NextEval]_vars

\* ------------------------------------------------------------ properties
TrainPcs == {"train_loop", "forward", "backward", "step", "zero_grad",
             "progress"}

TestPcs == {"test_enter", "test_loop"}

IsPrefix(a, b) == Len(a) <= Len(b) /\ SubSeq(b, 1, Len(a)) = a

RECURSIVE Repeat(_, _)
Repeat(s, n) == IF n = 0 THEN << >> ELSE s \o Repeat(s, n - 1)

Canonical == << "construct" >> \o Repeat(<< "train", "test" >>, epochs)
             \o << "save", "load", "predict" >>

\* correct predictions over a whole test split of n samples, sample by sample
TotalCorrect(p, n) ==
    Cardinality({i \in 0 .. (n - 1) :
                   Argmax(p, test_data(i).x) = test_data(i).y})

\* C1: in train(), the gradients are zero when loss.backward() of a batch
\* starts, in every batch of every epoch (also after the evaluation pass
\* between two epochs), so the gradient optimizer.step() uses is the
\* gradient of the batch in hand alone.
C1_GradientsFresh ==
    /\ pc = "backward" => models[model].grad = 0
    /\ pc = "step" => models[model].grad = Gradient(pred, Labels(Xy))

C1_Witness ==
    /\ pc = "backward"
    /\ t >= 1
    /\ batch >= 1
    /\ steps > 0

\* C2: no step of test() changes a parameter or a gradient of any model,
\* and a parameter changes only in optimizer.step() or load_state_dict().
C2_TestFrame ==
    [][ /\ pc \in TestPcs =>
             \A m \in DOMAIN models :
                 /\ models'[m].params = models[m].params
                 /\ models'[m].grad = models[m].grad
        /\ \A m \in DOMAIN models :
               models'[m].params # models[m].params => pc \in {"step", "load"}
      ]_vars

C2_Witness ==
    /\ pc = "test_return"
    /\ t >= 1
    /\ steps > 0
    /\ num_batches >= 2

\* C3: the phases run in the one fixed order construct, (train, test) x 5,
\* save, load, predict; a phase starts only when the one before it has
\* finished, and the file is written only after the evaluation of the last
\* epoch.
C3_LinearProcess ==
    /\ IsPrefix(phases, Canonical)
    /\ pc \in TrainPcs =>
          /\ phases[Len(phases)] = "train"
          /\ Len(reports) = t
          /\ steps >= t * NumBatches(train_size)
          /\ steps <= (t + 1) * NumBatches(train_size)
    /\ pc \in TestPcs =>
          /\ phases[Len(phases)] \in {"train", "test"}
          /\ steps = (t + 1) * NumBatches(train_size)
          /\ Len(reports) = t
    /\ file.exists =>
          /\ Len(reports) = epochs
          /\ test_calls = epochs
          /\ steps = epochs * NumBatches(train_size)
    /\ ReloadedModel \in DOMAIN models => file.exists
    /\ prediction.printed => pc = "end" /\ phases = Canonical

C3_Witness ==
    /\ pc = "end"
    /\ phases = Canonical
    /\ steps >= epochs * 2

\* C4: once the saved parameters are loaded into the freshly constructed
\* model, its parameters equal the saved ones, which are those of the
\* trained model after the last optimizer step, and both models decide every
\* input alike.
C4_RoundTrip ==
    pc \in {"predict_eval", "predict", "end"} =>
        /\ models[ReloadedModel].params = file.state
        /\ file.state = models[OptimizerModel].params
        /\ steps = epochs * NumBatches(train_size)
        /\ \A i \in 0 .. (test_size - 1) :
              LET a == Call(models[ReloadedModel], SampleShape,
                            << test_data(i).x >>, FALSE)
                  b == Call(models[OptimizerModel], SampleShape,
                            << test_data(i).x >>, FALSE)
              IN  a.cls = b.cls /\ a.shape = b.shape
        /\ pc = "end" =>
              pred.cls = << Argmax(models[OptimizerModel].params,
                                   test_data(PredictIndex).x) >>

C4_Witness ==
    /\ pc = "end"
    /\ steps > 0
    /\ model = ReloadedModel

\* C5: every accuracy test() reports is correct / size and lies in [0, 1],
\* and every average loss it reports is the sum of the batch losses divided
\* by the number of batches and is not negative.
C5_MetricsInRange ==
    \A i \in DOMAIN reports :
        LET r == reports[i]
            c == TotalCorrect(models[model].params, test_size)
        IN  /\ r.accuracy.den > 0
            /\ 0 <= r.accuracy.num
            /\ r.accuracy.num <= r.accuracy.den
            /\ r.avg_loss.den > 0
            /\ r.avg_loss.num >= 0
            /\ RatEq(r.accuracy, [num |-> c, den |-> test_size])
            /\ RatEq(r.avg_loss, [num |-> test_size - c,
                                  den |-> NumBatches(test_size)])

C5_Witness ==
    /\ pc = "test_return"
    /\ num_batches >= 2
    /\ reports[Len(reports)].accuracy.num > 0
    /\ reports[Len(reports)].accuracy.num < reports[Len(reports)].accuracy.den
    /\ reports[Len(reports)].avg_loss.num > 0

\* C6: two calls of test() in a row on the same model and the same test
\* split report the same accuracy and the same average loss.
C6_EvalIdempotent ==
    pc = "eval_done" =>
        /\ Len(reports) = 2
        /\ RatEq(reports[1].accuracy, reports[2].accuracy)
        /\ RatEq(reports[1].avg_loss, reports[2].avg_loss)

C6_Witness ==
    /\ pc = "eval_done"
    /\ num_batches >= 2
    /\ reports[2].accuracy.num > 0
    /\ reports[2].avg_loss.num > 0

\* C7: the run never stops before "Done!", and when it prints "Done!" it
\* has made epochs x number-of-batches optimizer steps and epochs calls of
\* test().
C7_TrainingTerminates ==
    /\ pc = "error" => file.exists
    /\ pc = "done" =>
          /\ t = epochs
          /\ steps = epochs * NumBatches(train_size)
          /\ test_calls = epochs

\* C8: the network maps (B, 1, 28, 28) to (B, 10) for every B >= 1 and the
\* single sample (1, 28, 28) to (1, 10); its stack is Linear 784->512, ReLU,
\* Linear 512->512, ReLU, Linear 512->10.
C8_ShapeContract ==
    /\ \A B \in 1 .. (batch_size + 1) :
          forward(<< B, 1, ImageSide, ImageSide >>) = << B, NumClasses >>
    /\ forward(SampleShape) = << 1, NumClasses >>
    /\ pred.called =>
          /\ Len(pred.cls) >= 1
          /\ pred.shape = << Len(pred.cls), NumClasses >>
    /\ pc \in {"backward", "step", "zero_grad", "progress"} =>
          pred.shape = << Xy.n, NumClasses >>
    /\ pc = "end" => pred.shape = << 1, NumClasses >>
    /\ [i \in DOMAIN linear_relu_stack |-> linear_relu_stack[i].op]
          = << "Linear", "ReLU", "Linear", "ReLU", "Linear" >>
    /\ << linear_relu_stack[1].in, linear_relu_stack[1].out,
          linear_relu_stack[3].in, linear_relu_stack[3].out,
          linear_relu_stack[5].in, linear_relu_stack[5].out >>
          = << 784, 512, 512, 512, 512, 10 >>

C8_Witness ==
    /\ pc = "end"
    /\ pred.called
    /\ pred.shape = << 1, NumClasses >>

\* C9: a progress line is printed exactly for the batches whose index is a
\* multiple of 100, and the count it shows equals the samples processed up
\* to and including that batch and does not exceed the dataset size.
C9_ProgressExact ==
    (pc = "train_loop" /\ batch >= 0) =>
        /\ observed.printed <=> (batch % ProgressEvery = 0)
        /\ observed.printed =>
              /\ observed.current = processed
              /\ observed.current <= observed.size

\* C10: every forward pass in train() runs in training mode, every forward
\* pass in test() and the single-sample prediction run in evaluation mode.
C10_ModeCorrect ==
    /\ pc = "forward" => models[model].training
    /\ pc \in {"backward", "step", "zero_grad", "progress"} => pred.training
    /\ pc = "test_loop" =>
          /\ ~models[model].training
          /\ it > 0 => ~pred.training
    /\ pc = "predict" => ~models[model].training
    /\ pc = "end" => ~pred.training

C10_Witness ==
    /\ pc = "forward"
    /\ t >= 1
    /\ Len(reports) >= 1

====
